---------------------------- MODULE Spec2Model ----------------------------
(***************************************************************************)
(* Shadow pipeline of the Arbalete sunlight analysis:                      *)
(*   src/src/geometry.py        shadow_bearing, shadow_length,             *)
(*                              translate_point                            *)
(*   src/src/solar.py           get_sunlit_times                           *)
(*   src/src/parse_city_json.py remove_empty_egid,                         *)
(*                              process_multiple_buildings, solar_position,*)
(*                              shadow_data_df, translate_points_df,       *)
(*                              get_interesection_ratios                   *)
(*   src/main.py                the order of the stages                    *)
(*                                                                         *)
(* Numbers.  The program computes in float64.  The model computes in fixed *)
(* point, each quantity in its own unit:                                   *)
(*   angles in degrees    : millidegrees           (46.203 deg = 46203)    *)
(*   angles in radians and                                                 *)
(*   sines, cosines, tans : 1/Scale                (1.0 = 10000)           *)
(*   metres               : centimetres            (10 m = 1000)           *)
(* Every operation rounds to the nearest unit, as a float operation rounds *)
(* to the nearest float.  A float that may be non-finite is a record       *)
(* [k |-> "fin" | "nan" | "inf", v |-> value or sign].                     *)
(***************************************************************************)
EXTENDS Integers, Sequences, FiniteSets, TLC

VARIABLES
    pc,         \* the next stage of src/main.py, or "lib" for a library call
    call,       \* a library call: [fn, args, done, ret]
    co_dict,    \* main.py `buildings_filtered`: dict key -> CityObject
    times,      \* main.py `times`: the timestamps, ascending
    sun,        \* pvlib: timestamp -> [elevation, azimuth]
    terrace_df, \* the terrace_df handed to get_interesection_ratios
    heap,       \* the DataFrame objects: object id -> sequence of rows
    env,        \* main.py's names -> object id (0: not bound yet)
    results     \* the rows get_interesection_ratios has appended

vars == <<pc, call, co_dict, times, sun, terrace_df, heap, env, results>>

\* What a library call leaves alone.
mainVars == <<pc, co_dict, times, sun, terrace_df, env, results>>

---------------------------------------------------------------------------
(* Fixed-point arithmetic standing for float64.                            *)

Scale == 10000
Pi == 31416
HalfPi == 15708
TwoPi == 62832

Abs(a) == IF a < 0 THEN -a ELSE a
Sgn(a) == IF a > 0 THEN 1 ELSE IF a < 0 THEN -1 ELSE 0
Min2(a, b) == IF a <= b THEN a ELSE b
Max2(a, b) == IF a >= b THEN a ELSE b

\* a / b rounded to the nearest unit, symmetric in the sign of a (b > 0).
RoundDiv(a, b) == Sgn(a) * ((2 * Abs(a) + b) \div (2 * b))

\* The product of two 1/Scale numbers.
Mul(a, b) == RoundDiv(a * b, Scale)

\* np.radians: millidegrees -> radians/Scale  (x * pi / 180).
np_radians(x) ==
    LET q == Abs(x) \div 1000
        r == Abs(x) % 1000
    IN  Sgn(x) * RoundDiv(q * 174533 + RoundDiv(r * 174533, 1000), 1000)

\* Mutant of np_degrees: the conversion back to degrees is left out.
np_degrees_left_out(y) == y

\* np.degrees: radians/Scale -> millidegrees  (y * 180 / pi).
np_degrees(y) ==
    LET q == Abs(y) \div 100
        r == Abs(y) % 100
    IN  Sgn(y) * RoundDiv(q * 572958 + RoundDiv(r * 572958, 100), 1000)

\* sin on [-pi/2, pi/2]: the Taylor polynomial up to x^11.
SinCore(x) ==
    LET x2 == Mul(x, x)
        t1 == x
        t2 == -RoundDiv(Mul(t1, x2), 6)
        t3 == -RoundDiv(Mul(t2, x2), 20)
        t4 == -RoundDiv(Mul(t3, x2), 42)
        t5 == -RoundDiv(Mul(t4, x2), 72)
        t6 == -RoundDiv(Mul(t5, x2), 110)
    IN  Max2(-Scale, Min2(Scale, t1 + t2 + t3 + t4 + t5 + t6))

\* np.sin: the argument is reduced to [-pi, pi], then to [-pi/2, pi/2].
np_sin(x) ==
    LET w == ((x + Pi) % TwoPi) - Pi
    IN  IF w > HalfPi THEN SinCore(Pi - w)
        ELSE IF w < -HalfPi THEN SinCore(-Pi - w)
        ELSE SinCore(w)

\* np.cos
np_cos(x) == np_sin(x + HalfPi)

\* np.tan of a finite argument is always finite: where the cosine rounds to
\* zero (90 degrees) float64 gives about 1.6e16, here the largest magnitude.
TanSat == 2000000000
np_tan(x) ==
    IF np_cos(x) = 0 THEN Sgn(np_sin(x)) * TanSat
    ELSE RoundDiv(np_sin(x) * Scale, Abs(np_cos(x))) * Sgn(np_cos(x))

\* Floats that may be non-finite.
Fin(v) == [k |-> "fin", v |-> v]
NaN == [k |-> "nan", v |-> 0]
Inf(s) == [k |-> "inf", v |-> s]
IsFin(f) == f.k = "fin"
IsNaN(f) == f.k = "nan"

\* Mutant of FloatDiv: a division guarded against a zero divisor.
FloatDiv_guarded(h, t) ==
    IF t = 0 \/ Abs(t) = TanSat THEN Fin(0)
    ELSE Fin(Sgn(t) * RoundDiv(h * Scale, Abs(t)))

\* float64 division h / t of finite numbers: x/0 is +-inf, 0/0 is nan
\* (numpy warns and does not raise).  t is in 1/Scale, h and the result in cm.
FloatDiv(h, t) ==
    IF t = 0 THEN (IF h = 0 THEN NaN ELSE Inf(Sgn(h)))
    ELSE IF Abs(t) = TanSat THEN Fin(0)
    ELSE Fin(Sgn(t) * RoundDiv(h * Scale, Abs(t)))

RECURSIVE ArcSinSearch(_, _, _)
ArcSinSearch(lo, hi, v) ==
    IF hi - lo <= 1
    THEN IF Abs(SinCore(lo) - v) <= Abs(SinCore(hi) - v) THEN lo ELSE hi
    ELSE LET mid == (lo + hi) \div 2
         IN  IF SinCore(mid) <= v THEN ArcSinSearch(mid, hi, v)
             ELSE ArcSinSearch(lo, mid, v)

\* np.arcsin: nan outside [-1, 1], else the angle in [-pi/2, pi/2].
np_arcsin(v) ==
    IF Abs(v) > Scale THEN NaN ELSE Fin(ArcSinSearch(-HalfPi, HalfPi, v))

RECURSIVE ISqrtSearch(_, _, _)
ISqrtSearch(lo, hi, n) ==
    IF hi - lo <= 1 THEN lo
    ELSE LET mid == (lo + hi) \div 2
         IN  IF mid * mid <= n THEN ISqrtSearch(mid, hi, n)
             ELSE ISqrtSearch(lo, mid, n)

\* np.arctan2(y, x): the angle of the point (x, y), in [-pi, pi].
np_arctan2(y, x) ==
    IF x = 0 /\ y = 0 THEN 0
    ELSE LET r == Max2(1, ISqrtSearch(0, 46340, x * x + y * y))
             base == IF Abs(x) >= Abs(y)
                     THEN ArcSinSearch(-HalfPi, HalfPi,
                                       Min2(Scale, RoundDiv(Abs(y) * Scale, r)))
                     ELSE HalfPi - ArcSinSearch(-HalfPi, HalfPi,
                                       Min2(Scale, RoundDiv(Abs(x) * Scale, r)))
         IN  IF x >= 0 THEN Sgn(y) * base
             ELSE IF y >= 0 THEN Pi - base ELSE -(Pi - base)

---------------------------------------------------------------------------
(* src/src/geometry.py                                                     *)

\* Mutant of shadow_bearing: the remainder takes the sign of the dividend
\* (C fmod) instead of the sign of the modulus.
shadow_bearing_fmod(azimuth) ==
    Sgn(azimuth + 180000) * (Abs(azimuth + 180000) % 360000)

\* Python's % on a positive modulus: the result is in [0, 360).
shadow_bearing(azimuth) == (azimuth + 180000) % 360000

\* Mutant of shadow_length: the elevation is not converted to radians.
shadow_length_in_degrees(solar_elevation, height) ==
    FloatDiv(height, np_tan(solar_elevation))

shadow_length(solar_elevation, height) ==
    FloatDiv(height, np_tan(np_radians(solar_elevation)))

\* The float operations of translate_point on one element.  sin, cos and
\* degrees of nan or inf are nan; a sum or product with nan is nan.
FloatSin(x) == IF IsFin(x) THEN Fin(np_sin(x.v)) ELSE NaN
FloatCos(x) == IF IsFin(x) THEN Fin(np_cos(x.v)) ELSE NaN
FloatDegrees(x) == IF IsFin(x) THEN Fin(np_degrees(x.v)) ELSE NaN
FloatArcSin(x) == IF IsFin(x) THEN np_arcsin(x.v) ELSE NaN
FloatMul(x, y) == IF IsFin(x) /\ IsFin(y) THEN Fin(Mul(x.v, y.v)) ELSE NaN
FloatAdd(x, y) == IF IsFin(x) /\ IsFin(y) THEN Fin(x.v + y.v) ELSE NaN
FloatSub(x, y) == IF IsFin(x) /\ IsFin(y) THEN Fin(x.v - y.v) ELSE NaN
FloatArcTan2(y, x) == IF IsFin(x) /\ IsFin(y) THEN Fin(np_arctan2(y.v, x.v)) ELSE NaN

\* numpy applies every operation of translate_point element by element to
\* arrays of one length: element i of the result comes from element i of
\* each operand.
ArrRadians(a) == [i \in 1..Len(a) |-> Fin(np_radians(a[i]))]
ArrSin(a) == [i \in 1..Len(a) |-> FloatSin(a[i])]
ArrCos(a) == [i \in 1..Len(a) |-> FloatCos(a[i])]
ArrDegrees(a) == [i \in 1..Len(a) |-> FloatDegrees(a[i])]
ArrArcSin(a) == [i \in 1..Len(a) |-> FloatArcSin(a[i])]

\* Mutant of ArrMul: the second operand is taken as a scalar, its first element.
ArrMul_first(a, b) == [i \in 1..Len(a) |-> FloatMul(a[i], b[1])]

ArrMul(a, b) == [i \in 1..Len(a) |-> FloatMul(a[i], b[i])]
ArrAdd(a, b) == [i \in 1..Len(a) |-> FloatAdd(a[i], b[i])]
ArrSub(a, b) == [i \in 1..Len(a) |-> FloatSub(a[i], b[i])]
ArrArcTan2(y, x) == [i \in 1..Len(y) |-> FloatArcTan2(y[i], x[i])]

\* length / R: cm -> radians/Scale; inf / R is inf, nan / R is nan.
ArrDivScalar(length, radius) ==
    [i \in 1..Len(length) |->
        LET x == length[i]
        IN  IF IsFin(x) THEN Fin(RoundDiv(x.v, (radius * 100) \div Scale)) ELSE x]

\* Earth radius in metres.
R == 6371000

\* translate_point(lat, long, length, bearing): lat, long and bearing are
\* arrays of millidegrees, length an array of floats in cm; the result is
\* the pair (array of lat2, array of long2) of floats in millidegrees.
translate_point(lat0, long0, length, bearing0) ==
    LET lat == ArrRadians(lat0)
        long == ArrRadians(long0)
        bearing == ArrRadians(bearing0)
        frac_distance == ArrDivScalar(length, R)
        lat2 == ArrArcSin(ArrAdd(
                    ArrMul(ArrSin(lat), ArrCos(frac_distance)),
                    ArrMul(ArrMul(ArrCos(lat), ArrSin(frac_distance)), ArrCos(bearing))))
        long2 == ArrAdd(long,
                    ArrArcTan2(
                        ArrMul(ArrMul(ArrSin(bearing), ArrSin(frac_distance)), ArrCos(lat)),
                        ArrSub(ArrCos(frac_distance), ArrMul(ArrSin(lat), ArrSin(lat2)))))
    IN  <<ArrDegrees(lat2), ArrDegrees(long2)>>

\* pyproj.Geod(ellps="WGS84").inv(lon1, lat1, lon2, lat2): the forward
\* azimuth, the back azimuth (millidegrees) and the distance (metres) between
\* two points given in millidegrees.  On the ellipsoid a millidegree of
\* latitude is 111.13 m and one of longitude 111.32 m times the cosine of the
\* latitude, here that of the middle of the two points.
geod_inv(lon1, lat1, lon2, lat2) ==
    LET mid == RoundDiv(lat1 + lat2, 2)
        dy == RoundDiv((lat2 - lat1) * 11113, 100)
        dx == RoundDiv(RoundDiv((lon2 - lon1) * 11132, 100) * np_cos(np_radians(mid)),
                       Scale)
    IN  << np_degrees(np_arctan2(dx, dy)),
           np_degrees(np_arctan2(-dx, -dy)),
           ISqrtSearch(0, 46340, dx * dx + dy * dy) >>

\* Mutant of compute_border_lengths: the east border is measured from NE to
\* SW.
compute_border_lengths_diagonal(corners) ==
    LET nw == corners["NW"]
        ne == corners["NE"]
        se == corners["SE"]
        sw == corners["SW"]
    IN  [north |-> Abs(geod_inv(nw[2], nw[1], ne[2], ne[1])[3]),
         east |-> Abs(geod_inv(ne[2], ne[1], sw[2], sw[1])[3]),
         south |-> Abs(geod_inv(se[2], se[1], sw[2], sw[1])[3]),
         west |-> Abs(geod_inv(sw[2], sw[1], nw[2], nw[1])[3])]

\* compute_border_lengths(corners): corners maps "NW", "NE", "SE", "SW" to
\* points <<lat, lon>>; the lengths are in metres.
compute_border_lengths(corners) ==
    LET nw == corners["NW"]
        ne == corners["NE"]
        se == corners["SE"]
        sw == corners["SW"]
        north_border == geod_inv(nw[2], nw[1], ne[2], ne[1])[3]
        east_border == geod_inv(ne[2], ne[1], se[2], se[1])[3]
        south_border == geod_inv(se[2], se[1], sw[2], sw[1])[3]
        west_border == geod_inv(sw[2], sw[1], nw[2], nw[1])[3]
    IN  [north |-> Abs(north_border), east |-> Abs(east_border),
         south |-> Abs(south_border), west |-> Abs(west_border)]

\* _get_intersection(shadow, terrace): shadow is an array of points
\* <<lat, lon>> of floats in millidegrees, terrace an array of points
\* <<lat, lon>> in millidegrees, in boundary order.  The result is
\* [raised, value]; value is the pair (intersection polygon, ratio), the
\* ratio a float in 1/Scale.  Plane coordinates are <<x, y>> in units of 10 m.

\* The origin of the common planar frame: the first corner of the target.
PlaneOrigin(terrace) == IF terrace = <<>> THEN <<0, 0>> ELSE terrace[1]

\* The projection of a point into the frame: at the latitude of the terrace
\* a millidegree of latitude is 111 m, one of longitude 77 m.
ToPlane(p, origin) ==
    << RoundDiv((p[2] - origin[2]) * 77, 10), RoundDiv((p[1] - origin[1]) * 111, 10) >>

\* Twice the signed area of the triangle o, a, b: positive when b lies to the
\* left of the ray from o through a.
Cross(o, a, b) ==
    (a[1] - o[1]) * (b[2] - o[2]) - (a[2] - o[2]) * (b[1] - o[1])

Dist2(a, b) == (a[1] - b[1]) * (a[1] - b[1]) + (a[2] - b[2]) * (a[2] - b[2])

\* Twice the area of a polygon given by its corners in boundary order.
Area2(poly) ==
    LET n == Len(poly)
        term[i \in 0..n] ==
            IF i = 0 THEN 0
            ELSE LET a == poly[i]
                     b == poly[(i % n) + 1]
                 IN  term[i - 1] + (a[1] * b[2] - b[1] * a[2])
    IN  Abs(term[n])

\* The distinct shadow points with finite coordinates, projected.
ShadowPlanePoints(shadow, origin) ==
    {ToPlane(<<shadow[i][1].v, shadow[i][2].v>>, origin) :
        i \in {j \in 1..Len(shadow) : IsFin(shadow[j][1]) /\ IsFin(shadow[j][2])}}

\* The lowest of the leftmost points of S.
HullStart(S) ==
    CHOOSE p \in S : \A q \in S : p[1] < q[1] \/ (p[1] = q[1] /\ p[2] <= q[2])

\* The corner that follows p on the boundary of the convex hull of S, counter
\* clockwise: no point lies to the right of the edge from p to it, and the
\* points on the edge's line lie between the two.
HullNext(S, p) ==
    CHOOSE q \in S \ {p} :
        \A r \in S \ {p, q} :
            \/ Cross(p, q, r) > 0
            \/ Cross(p, q, r) = 0 /\ Dist2(p, r) < Dist2(p, q)

RECURSIVE HullFrom(_, _, _)
HullFrom(S, start, p) ==
    LET q == HullNext(S, p)
    IN  IF q = start THEN <<p>> ELSE <<p>> \o HullFrom(S, start, q)

\* The convex hull of a set of plane points, counter clockwise.
ConvexHull(S) ==
    IF Cardinality(S) < 2 THEN <<>> ELSE HullFrom(S, HullStart(S), HullStart(S))

\* Where the segment from p to q crosses the line through a and b.
CrossingPoint(p, q, a, b) ==
    LET dp == Cross(a, b, p)
        dq == Cross(a, b, q)
    IN  << p[1] + RoundDiv((q[1] - p[1]) * dp, dp - dq),
           p[2] + RoundDiv((q[2] - p[2]) * dp, dp - dq) >>

RECURSIVE ClipFrom(_, _, _, _)
\* The part of the polygon subject, from its edge i on, that lies to the left
\* of the line from a to b.
ClipFrom(subject, a, b, i) ==
    IF i > Len(subject) THEN <<>>
    ELSE LET p == subject[i]
             q == subject[(i % Len(subject)) + 1]
             pin == Cross(a, b, p) >= 0
             qin == Cross(a, b, q) >= 0
             out == IF pin /\ qin THEN <<q>>
                    ELSE IF pin THEN <<CrossingPoint(p, q, a, b)>>
                    ELSE IF qin THEN <<CrossingPoint(p, q, a, b), q>>
                    ELSE <<>>
         IN  out \o ClipFrom(subject, a, b, i + 1)

RECURSIVE ClipBy(_, _, _)
\* The polygon subject cut by the edges k, k + 1, ... of the convex polygon
\* hull.
ClipBy(subject, hull, k) ==
    IF k > Len(hull) \/ subject = <<>> THEN subject
    ELSE ClipBy(ClipFrom(subject, hull[k], hull[(k % Len(hull)) + 1], 1), hull, k + 1)

\* Mutant of TargetError: the target is not validated.
TargetError_unchecked(target) == "none"

\* The error a target polygon (projected) is refused with, or "none".
TargetError(target) ==
    IF Len(target) < 3 \/ Area2(target) = 0 THEN "InputError" ELSE "none"

\* The float quotient of two areas, in 1/Scale: 0/0 is nan, x/0 is inf.
AreaQuotient(intersection_area, target_area) ==
    IF target_area = 0
    THEN (IF intersection_area = 0 THEN NaN ELSE Inf(Sgn(intersection_area)))
    ELSE Fin(RoundDiv(intersection_area * Scale, target_area))

\* Mutant of IntersectionRatio: the quotient as it comes.
IntersectionRatio_unclamped(intersection_area, target_area) ==
    AreaQuotient(intersection_area, target_area)

\* intersection_area / target_polygon_area, clamped to [0, 1].
IntersectionRatio(intersection_area, target_area) ==
    LET ratio == AreaQuotient(intersection_area, target_area)
    IN  IF IsFin(ratio) THEN Fin(Max2(0, Min2(Scale, ratio.v))) ELSE ratio

\* Mutant of _get_intersection: fewer than 3 shadow points are refused like a
\* degenerate target.
_get_intersection_strict(shadow, terrace) ==
    LET origin == PlaneOrigin(terrace)
        target == [i \in 1..Len(terrace) |-> ToPlane(terrace[i], origin)]
        points == ShadowPlanePoints(shadow, origin)
        hull == ConvexHull(points)
        intersection == ClipBy(target, hull, 1)
    IN  IF TargetError(target) # "none" \/ Cardinality(points) < 3
        THEN [raised |-> "InputError", value |-> <<>>]
        ELSE IF Area2(hull) = 0
        THEN [raised |-> "none", value |-> << <<>>, Fin(0) >>]
        ELSE [raised |-> "none",
              value |-> <<intersection,
                          IntersectionRatio(Area2(intersection), Area2(target))>>]

_get_intersection(shadow, terrace) ==
    LET origin == PlaneOrigin(terrace)
        target == [i \in 1..Len(terrace) |-> ToPlane(terrace[i], origin)]
        points == ShadowPlanePoints(shadow, origin)
        hull == ConvexHull(points)
        intersection == ClipBy(target, hull, 1)
    IN  IF TargetError(target) # "none"
        THEN [raised |-> TargetError(target), value |-> <<>>]
        ELSE IF Cardinality(points) < 3 \/ Area2(hull) = 0
        THEN [raised |-> "none", value |-> << <<>>, Fin(0) >>]
        ELSE [raised |-> "none",
              value |-> <<intersection,
                          IntersectionRatio(Area2(intersection), Area2(target))>>]

---------------------------------------------------------------------------
(* src/src/solar.py                                                        *)

\* Python's None where a timestamp is expected; timestamps are seconds
\* since local midnight, so never negative.
None == -1

\* Mutant of RowsAbove: the comparison admits equality.
RowsAtOrAbove(solar_positions, threshold) ==
    SelectSeq(solar_positions.rows, LAMBDA r : r.elevation >= threshold)

\* solar_positions[solar_positions["elevation"] > threshold]: the rows above
\* the threshold, in the order of the table.
RowsAbove(solar_positions, threshold) ==
    SelectSeq(solar_positions.rows, LAMBDA r : r.elevation > threshold)

\* Mutant of get_sunlit_times: a table without 'elevation' has no sunlit
\* period.
get_sunlit_times_lenient(solar_positions, morning_threshold, evening_threshold) ==
    IF "elevation" \notin solar_positions.columns
    THEN [raised |-> "none", value |-> <<None, None>>]
    ELSE LET first_sunlit_df == RowsAbove(solar_positions, morning_threshold)
             first_ray == IF first_sunlit_df # <<>>
                          THEN first_sunlit_df[1].time ELSE None
             last_sunlit_df == RowsAbove(solar_positions, evening_threshold)
             last_ray == IF last_sunlit_df # <<>>
                         THEN last_sunlit_df[Len(last_sunlit_df)].time ELSE None
         IN  [raised |-> "none", value |-> <<first_ray, last_ray>>]

\* Mutant of get_sunlit_times: the two thresholds are exchanged.
get_sunlit_times_exchanged(solar_positions, morning_threshold, evening_threshold) ==
    IF "elevation" \notin solar_positions.columns
    THEN [raised |-> "ValueError", value |-> <<>>]
    ELSE LET first_sunlit_df == RowsAbove(solar_positions, evening_threshold)
             first_ray == IF first_sunlit_df # <<>>
                          THEN first_sunlit_df[1].time ELSE None
             last_sunlit_df == RowsAbove(solar_positions, morning_threshold)
             last_ray == IF last_sunlit_df # <<>>
                         THEN last_sunlit_df[Len(last_sunlit_df)].time ELSE None
         IN  [raised |-> "none", value |-> <<first_ray, last_ray>>]

\* get_sunlit_times: the result is [raised, value]; value is the pair
\* (first_ray, last_ray) when nothing is raised.
get_sunlit_times(solar_positions, morning_threshold, evening_threshold) ==
    IF "elevation" \notin solar_positions.columns
    THEN [raised |-> "ValueError", value |-> <<>>]
    ELSE LET first_sunlit_df == RowsAbove(solar_positions, morning_threshold)
             first_ray == IF first_sunlit_df # <<>>
                          THEN first_sunlit_df[1].time ELSE None
             last_sunlit_df == RowsAbove(solar_positions, evening_threshold)
             last_ray == IF last_sunlit_df # <<>>
                         THEN last_sunlit_df[Len(last_sunlit_df)].time ELSE None
         IN  [raised |-> "none", value |-> <<first_ray, last_ray>>]

---------------------------------------------------------------------------
(* src/src/parse_city_json.py                                              *)

\* A DataFrame is the sequence of its rows, a row a record of its columns.
ColumnOf(df, name) == [i \in 1..Len(df) |-> df[i][name]]

\* Mutant of remove_empty_egid: a building whose EGID is empty is removed
\* too.
remove_empty_egid_falsy(cd) ==
    [id \in {k \in DOMAIN cd : /\ "EGID" \in DOMAIN cd[k].attributes
                               /\ cd[k].attributes["EGID"] # ""} |-> cd[id]]

\* remove_empty_egid(co_dict): the dict after the deletions (the dict itself
\* is changed and returned).
remove_empty_egid(cd) ==
    [id \in {k \in DOMAIN cd : "EGID" \in DOMAIN cd[k].attributes} |-> cd[id]]

\* transformer.itransform: pyproj's EPSG:2056 -> EPSG:4326 on one vertex
\* (easting, northing in metres, z in cm), linearised around the terrace:
\* 1 km north is 9 millidegrees of latitude, 1 km east 13 of longitude; z
\* passes through.
Transform(v) ==
    << 46203 + RoundDiv((v[2] - 1118000) * 9, 1000),
       6152 + RoundDiv((v[1] - 2500000) * 13, 1000),
       v[3] >>

\* process_boundary_generator
process_boundary_generator(vertex_list) ==
    [i \in 1..Len(vertex_list) |-> Transform(vertex_list[i])]

\* convert_vertices_to_df(id, co): one row per vertex, egid the dict key.
convert_vertices_to_df(id, co) ==
    LET vertex_list == process_boundary_generator(co.vertices)
    IN  [i \in 1..Len(vertex_list) |->
            [lat |-> vertex_list[i][1], lon |-> vertex_list[i][2],
             z |-> vertex_list[i][3], egid |-> id]]

\* The keys a dict can have, in the order the dict yields them.
IdOrder == <<"b1", "b2">>

RECURSIVE ConcatFrom(_, _)
\* pd.concat([convert_vertices_to_df(_id, x) for _id, x in co_dict.items()])
ConcatFrom(cd, k) ==
    IF k > Len(IdOrder) THEN <<>>
    ELSE (IF IdOrder[k] \in DOMAIN cd
          THEN convert_vertices_to_df(IdOrder[k], cd[IdOrder[k]])
          ELSE <<>>) \o ConcatFrom(cd, k + 1)

\* Mutant of GroupMinZ: the z of the first vertex of the building.
GroupFirstZ(dfs, egid) ==
    LET first == CHOOSE i \in 1..Len(dfs) :
                    dfs[i].egid = egid /\ \A j \in 1..(i - 1) : dfs[j].egid # egid
    IN  dfs[first].z

\* dfs.groupby('egid')['z'].min() for one egid.
GroupMinZ(dfs, egid) ==
    LET zs == {dfs[i].z : i \in {j \in 1..Len(dfs) : dfs[j].egid = egid}}
    IN  CHOOSE m \in zs : \A z \in zs : m <= z

\* process_multiple_buildings(co_dict), for a dict with at least one entry
\* (pd.concat of an empty list raises ValueError).
process_multiple_buildings(cd) ==
    LET dfs == ConcatFrom(cd, 1)
    IN  [i \in 1..Len(dfs) |->
            LET min_height == GroupMinZ(dfs, dfs[i].egid)
            IN  [lat |-> dfs[i].lat, lon |-> dfs[i].lon, z |-> dfs[i].z,
                 egid |-> dfs[i].egid, min_height |-> min_height,
                 h |-> dfs[i].z - min_height, altitude |-> min_height]]

RECURSIVE DropDuplicates(_)
DropDuplicates(df) ==
    IF df = <<>> THEN <<>>
    ELSE LET rest == DropDuplicates(SubSeq(df, 1, Len(df) - 1))
             last == df[Len(df)]
         IN  IF \E i \in 1..Len(rest) : rest[i] = last THEN rest
             ELSE Append(rest, last)

\* Mutant of solar_position: one pvlib call per distinct vertex row.
solar_position_unique(df, ts, pvlib) ==
    LET u == DropDuplicates(df)
    IN  [n \in 1..(Len(u) * Len(ts)) |->
            LET row == u[((n - 1) \div Len(ts)) + 1]
                t == ts[((n - 1) % Len(ts)) + 1]
            IN  [time |-> t, egid |-> row.egid, lat |-> row.lat, lon |-> row.lon,
                 elevation |-> pvlib[t].elevation, azimuth |-> pvlib[t].azimuth,
                 h |-> row.h]]

\* solar_position(df, times): for every row of df, in order, one row per
\* timestamp.  pvlib[t] is what pvlib's get_solarposition returns at time t.
solar_position(df, ts, pvlib) ==
    [n \in 1..(Len(df) * Len(ts)) |->
        LET row == df[((n - 1) \div Len(ts)) + 1]
            t == ts[((n - 1) % Len(ts)) + 1]
        IN  [time |-> t, egid |-> row.egid, lat |-> row.lat, lon |-> row.lon,
             elevation |-> pvlib[t].elevation, azimuth |-> pvlib[t].azimuth,
             h |-> row.h]]

\* Mutant of shadow_data_df: the rows the sun is not above the horizon for
\* are left out.
shadow_data_df_sunlit(df) ==
    LET up == SelectSeq(df, LAMBDA r : r.elevation > 0)
    IN  [i \in 1..Len(up) |->
            [shadow_bearing |-> shadow_bearing(up[i].azimuth),
             shadow_length |-> shadow_length(up[i].elevation, up[i].h)] @@ up[i]]

\* Mutant of shadow_data_df: the height is read as a scalar, the first row's.
shadow_data_df_first_h(df) ==
    [i \in 1..Len(df) |->
        [shadow_bearing |-> shadow_bearing(df[i].azimuth),
         shadow_length |-> shadow_length(df[i].elevation, df[1].h)] @@ df[i]]

\* shadow_data_df(df): the rows of df after the two column assignments.
shadow_data_df(df) ==
    [i \in 1..Len(df) |->
        [shadow_bearing |-> shadow_bearing(df[i].azimuth),
         shadow_length |-> shadow_length(df[i].elevation, df[i].h)] @@ df[i]]

\* translate_points_df(df): the rows of df after the column assignment.
translate_points_df(df) ==
    LET tips == translate_point(ColumnOf(df, "lat"), ColumnOf(df, "lon"),
                                ColumnOf(df, "shadow_length"),
                                ColumnOf(df, "shadow_bearing"))
    IN  [i \in 1..Len(df) |->
            [shadow_lat |-> tips[1][i], shadow_lon |-> tips[2][i]] @@ df[i]]

\* Mutant of GroupRows: the table is grouped by time alone.
GroupRows_by_time(shadow_df, time, egid) ==
    SelectSeq(shadow_df, LAMBDA r : r.time = time)

\* The rows of one group of shadow_df.groupby(['time', 'egid']), in the
\* order of the table.
GroupRows(shadow_df, time, egid) ==
    SelectSeq(shadow_df, LAMBDA r : r.time = time /\ r.egid = egid)

\* sub_df[['shadow_lat', 'shadow_lon']].values
ShadowPoints(sub_df) ==
    [i \in 1..Len(sub_df) |-> <<sub_df[i].shadow_lat, sub_df[i].shadow_lon>>]

\* terrace_df[terrace_df['egid'] == egid][['lat', 'lon']].values
TerracePoints(terrace, egid) ==
    LET sub == SelectSeq(terrace, LAMBDA r : r.egid = egid)
    IN  [i \in 1..Len(sub) |-> <<sub[i].lat, sub[i].lon>>]

RECURSIVE GroupsFrom(_, _, _, _, _)
\* The groups of get_interesection_ratios in key order (time, then egid),
\* each with the two arrays handed to the intersection.
GroupsFrom(shadow_df, terrace, ts, ti, k) ==
    IF ti > Len(ts) THEN <<>>
    ELSE IF k > Len(IdOrder) THEN GroupsFrom(shadow_df, terrace, ts, ti + 1, 1)
    ELSE LET sub_df == GroupRows(shadow_df, ts[ti], IdOrder[k])
         IN  (IF sub_df = <<>> THEN <<>>
              ELSE << [time |-> ts[ti], egid |-> IdOrder[k],
                       shadow |-> ShadowPoints(sub_df),
                       terrace |-> TerracePoints(terrace, IdOrder[k])] >>)
             \o GroupsFrom(shadow_df, terrace, ts, ti, k + 1)

RECURSIVE RatiosFrom(_, _)
\* The loop of get_interesection_ratios from group g on: [raised, rows], rows
\* the tuples appended to results_tuple, each with the arrays it came from.
\* An error of _get_intersection ends the loop.
RatiosFrom(groups, g) ==
    IF g > Len(groups) THEN [raised |-> "none", rows |-> <<>>]
    ELSE LET r == _get_intersection(groups[g].shadow, groups[g].terrace)
         IN  IF r.raised # "none" THEN [raised |-> r.raised, rows |-> <<>>]
             ELSE LET rest == RatiosFrom(groups, g + 1)
                  IN  [raised |-> rest.raised,
                       rows |-> << [intersection_ratio |-> r.value[2]] @@ groups[g] >>
                                \o rest.rows]

\* get_interesection_ratios(shadow_df, terrace_df); ts are the timestamps of
\* shadow_df in ascending order.
get_interesection_ratios(shadow_df, terrace, ts) ==
    RatiosFrom(GroupsFrom(shadow_df, terrace, ts, 1, 1), 1)

---------------------------------------------------------------------------
(* Library calls of geometry.py on drawn inputs.                           *)

AzimuthInputs ==
    {d * 45000 : d \in -16..24}
    \cup {-1, 1, 359999, 360001, -359999, 123456, -180001, 179999, 180001}

ElevationInputs ==
    {d * 5000 : d \in -18..18}
    \cup {-89000, -1000, -900, -833, 833, 900, 1000, 89000}

HeightInputs == {0, 100, 1000, 2500}

\* Start points and bearings of the zero-distance calls.
LatInputs == {-60000, -21695, 0, 46203, 60000}
LongInputs == {-180000, 6152, 179999}
BearingInputs == {0, 45000, 90000, 123456, 180000, 270000, 359999}

\* Elements <<lat, long, length, bearing>> of the array calls: distances from
\* 573 m to 3000 km, a zero distance, and the non-finite lengths that
\* shadow_length produces at elevation 0.
TranslateSamples ==
    { <<46203, 6152, Fin(57300), 0>>,
      <<46203, 6152, Fin(57300000), 90000>>,
      <<-21695, 179999, Fin(100000000), 225000>>,
      <<0, -180000, Fin(300000000), 270000>>,
      <<60000, 6152, Fin(0), 123456>>,
      <<46203, 6152, NaN, 0>>,
      <<46203, 6152, Inf(1), 0>> }

\* The longest array of a translate_point call.
MaxLen == 2

SeqsUpTo(S, n) == UNION {[1..m -> S] : m \in 1..n}
Column(rows, j) == [i \in 1..Len(rows) |-> rows[i][j]]

\* Target polygons <<lat, lon>> in millidegrees, in boundary order: a square
\* of 10 millidegrees, the same moved north east, and four identical corners.
TerraceSquare ==
    << <<46200, 6150>>, <<46200, 6160>>, <<46210, 6160>>, <<46210, 6150>> >>
TerraceMoved ==
    << <<46202, 6155>>, <<46202, 6170>>, <<46212, 6170>>, <<46212, 6155>> >>
TerracePoint ==
    << <<46203, 6152>>, <<46203, 6152>>, <<46203, 6152>>, <<46203, 6152>> >>

\* More targets of the library calls: a convex quadrilateral with slanted
\* edges, three corners on one meridian, and two corners.
TerraceSlanted ==
    << <<46202, 6150>>, <<46198, 6159>>, <<46208, 6158>>, <<46209, 6149>> >>
TerraceLine ==
    << <<46200, 6150>>, <<46205, 6150>>, <<46210, 6150>> >>
TerraceSegment ==
    << <<46200, 6150>>, <<46210, 6160>> >>

TargetInputs ==
    { TerraceSquare, TerraceMoved, TerraceSlanted, TerracePoint, TerraceLine,
      TerraceSegment, <<>> }

\* Shadow tips <<lat, lon>>: the corners of a triangle that overlaps the
\* square in part, a point south west of it, and the tip of a shadow of
\* undefined length.
PointInputs ==
    { <<Fin(46203), Fin(6152)>>, <<Fin(46203), Fin(6165)>>,
      <<Fin(46212), Fin(6152)>>, <<Fin(46195), Fin(6145)>>, <<NaN, NaN>> }

\* The longest array of shadow points drawn from PointInputs.
MaxPoints == 3

FloatPoints(points) ==
    [i \in 1..Len(points) |-> <<Fin(points[i][1]), Fin(points[i][2])>>]

\* A triangle that leaves out a sliver of the slanted target.
ShadowAroundSlanted ==
    FloatPoints(<< <<46194, 6157>>, <<46209, 6141>>, <<46218, 6168>> >>)

\* The arrays of shadow points: none, the arrays over PointInputs, the
\* square itself, a quadrilateral around all targets, and the triangle.
ShadowInputs ==
    { <<>>, FloatPoints(TerraceSquare), ShadowAroundSlanted,
      FloatPoints(<< <<46190, 6140>>, <<46190, 6180>>, <<46220, 6180>>,
                     <<46220, 6140>> >>) }
    \cup SeqsUpTo(PointInputs, MaxPoints)

\* The attributes a city object can have: an EGID, an empty EGID, no EGID.
AttributeInputs ==
    { ("EGID" :> "101"), ("EGID" :> "102"), ("EGID" :> ""),
      ("name" :> "x"), ("name" :> "x") @@ ("EGID" :> "101") }

\* The dicts handed to remove_empty_egid: up to three city objects.
RawCoDicts ==
    UNION { [ids -> {[attributes |-> a, vertices |-> <<>>] : a \in AttributeInputs}] :
                ids \in SUBSET {"b1", "b2", "b3"} }

\* The corner dicts handed to compute_border_lengths: every corner one of
\* two points, up to 2 km from the opposite one.
CornerInputs ==
    [NW : {<<46210, 6150>>, <<46212, 6147>>},
     NE : {<<46210, 6160>>, <<46207, 6164>>},
     SE : {<<46200, 6160>>, <<46197, 6158>>},
     SW : {<<46200, 6150>>, <<46201, 6141>>}]

NoCall == [fn |-> "none", args |-> <<>>, done |-> FALSE, ret |-> <<>>]
NoEnv == [buildings_df |-> 0, building_points_with_solar |-> 0,
          translated_points_df |-> 0]

GeomCalls ==
    {[fn |-> "shadow_bearing", args |-> <<a>>, done |-> FALSE, ret |-> <<>>] :
        a \in AzimuthInputs}
    \cup
    {[fn |-> "shadow_length", args |-> <<e, h>>, done |-> FALSE, ret |-> <<>>] :
        e \in ElevationInputs, h \in HeightInputs}
    \cup
    {[fn |-> "translate_point", args |-> <<<<la>>, <<lo>>, <<Fin(0)>>, <<b>>>>,
      done |-> FALSE, ret |-> <<>>] :
        la \in LatInputs, lo \in LongInputs, b \in BearingInputs}
    \cup
    {[fn |-> "translate_point",
      args |-> <<Column(rows, 1), Column(rows, 2), Column(rows, 3), Column(rows, 4)>>,
      done |-> FALSE, ret |-> <<>>] :
        rows \in SeqsUpTo(TranslateSamples, MaxLen)}
    \cup
    {[fn |-> "compute_border_lengths", args |-> <<c>>, done |-> FALSE, ret |-> <<>>] :
        c \in CornerInputs}
    \cup
    {[fn |-> "_get_intersection", args |-> <<shadow, terrace>>,
      done |-> FALSE, ret |-> <<>>] :
        shadow \in ShadowInputs, terrace \in TargetInputs}

\* Rows <<elevation, azimuth, h>> of the tables handed to shadow_data_df:
\* the 45 degree scenario, a ground vertex at elevation 0, night, a low sun.
SolarRowSamples ==
    { <<45000, 180000, 1000>>, <<0, 0, 0>>, <<-30000, 270000, 2500>>,
      <<30000, 359999, 100>> }

SolarRow(x) ==
    [time |-> 0, egid |-> "b1", lat |-> 46203, lon |-> 6152,
     elevation |-> x[1], azimuth |-> x[2], h |-> x[3]]

\* A row of the tables handed to translate_points_df.
ShadowRow(x) ==
    [time |-> 0, egid |-> "b1", lat |-> x[1], lon |-> x[2],
     elevation |-> 45000, azimuth |-> (x[4] + 180000) % 360000, h |-> 1000,
     shadow_bearing |-> x[4], shadow_length |-> x[3]]

\* The calls on a DataFrame: the table is object 1 of the heap, the argument
\* a reference to it.
TableCalls ==
    {[fn |-> "shadow_data_df", args |-> <<1>>, done |-> FALSE, ret |-> 0,
      table |-> [i \in 1..Len(rows) |-> SolarRow(rows[i])]] :
        rows \in SeqsUpTo(SolarRowSamples, MaxLen)}
    \cup
    {[fn |-> "translate_points_df", args |-> <<1>>, done |-> FALSE, ret |-> 0,
      table |-> [i \in 1..Len(rows) |-> ShadowRow(rows[i])]] :
        rows \in SeqsUpTo(TranslateSamples, MaxLen)}

\* A library call: one of geometry.py, one on a DataFrame, or
\* remove_empty_egid on a dict (co_dict is the dict object handed over).
InitGeom ==
    /\ pc = "lib"
    /\ \/ call \in GeomCalls /\ heap = <<>> /\ co_dict = <<>>
       \/ \E c \in TableCalls :
             /\ call = [fn |-> c.fn, args |-> c.args, done |-> FALSE, ret |-> 0]
             /\ heap = <<c.table>>
             /\ co_dict = <<>>
       \/ /\ co_dict \in RawCoDicts
          /\ call = [fn |-> "remove_empty_egid", args |-> <<co_dict>>,
                     done |-> FALSE, ret |-> <<>>]
          /\ heap = <<>>
    /\ times = <<>>
    /\ sun = <<>>
    /\ terrace_df = <<>>
    /\ env = NoEnv
    /\ results = <<>>

CallShadowBearing ==
    /\ pc = "lib" /\ call.fn = "shadow_bearing" /\ ~call.done
    /\ call' = [call EXCEPT !.done = TRUE, !.ret = shadow_bearing(call.args[1])]
    /\ UNCHANGED <<mainVars, heap>>

CallShadowLength ==
    /\ pc = "lib" /\ call.fn = "shadow_length" /\ ~call.done
    /\ call' = [call EXCEPT !.done = TRUE,
                            !.ret = shadow_length(call.args[1], call.args[2])]
    /\ UNCHANGED <<mainVars, heap>>

CallTranslatePoint ==
    /\ pc = "lib" /\ call.fn = "translate_point" /\ ~call.done
    /\ call' = [call EXCEPT !.done = TRUE,
                            !.ret = translate_point(call.args[1], call.args[2],
                                                    call.args[3], call.args[4])]
    /\ UNCHANGED <<mainVars, heap>>

\* shadow_data_df and translate_points_df assign the new columns to the
\* DataFrame they are given and return that same object.
CallShadowDataDf ==
    /\ pc = "lib" /\ call.fn = "shadow_data_df" /\ ~call.done
    /\ heap' = [heap EXCEPT ![call.args[1]] = shadow_data_df(@)]
    /\ call' = [call EXCEPT !.done = TRUE, !.ret = call.args[1]]
    /\ UNCHANGED mainVars

CallTranslatePointsDf ==
    /\ pc = "lib" /\ call.fn = "translate_points_df" /\ ~call.done
    /\ heap' = [heap EXCEPT ![call.args[1]] = translate_points_df(@)]
    /\ call' = [call EXCEPT !.done = TRUE, !.ret = call.args[1]]
    /\ UNCHANGED mainVars

CallGetIntersection ==
    /\ pc = "lib" /\ call.fn = "_get_intersection" /\ ~call.done
    /\ call' = [call EXCEPT !.done = TRUE,
                            !.ret = _get_intersection(call.args[1], call.args[2])]
    /\ UNCHANGED <<mainVars, heap>>

\* remove_empty_egid on the dict, and once more on the dict it returned.
\* call.ret lists what the dict held when each call returned.
CallRemoveEmptyEgid ==
    /\ pc = "lib" /\ call.fn = "remove_empty_egid" /\ Len(call.ret) < 2
    /\ co_dict' = remove_empty_egid(co_dict)
    /\ call' = [call EXCEPT !.done = TRUE, !.ret = Append(@, co_dict')]
    /\ UNCHANGED <<pc, times, sun, terrace_df, env, results, heap>>

CallComputeBorderLengths ==
    /\ pc = "lib" /\ call.fn = "compute_border_lengths" /\ ~call.done
    /\ call' = [call EXCEPT !.done = TRUE,
                            !.ret = compute_border_lengths(call.args[1])]
    /\ UNCHANGED <<mainVars, heap>>

NextGeom ==
    \/ CallComputeBorderLengths
    \/ CallRemoveEmptyEgid
    \/ CallGetIntersection
    \/ CallShadowBearing
    \/ CallShadowLength
    \/ CallTranslatePoint
    \/ CallShadowDataDf
    \/ CallTranslatePointsDf

SpecGeom == InitGeom /\ [][NextGeom]_vars

Returned(fn) == call.fn = fn /\ call.done

---------------------------------------------------------------------------
\* C1: for every azimuth a, negative and >= 360 included, shadow_bearing(a)
\* is (a + 180) mod 360: the one value in [0, 360) that differs from a + 180
\* by a multiple of 360; and shadow_bearing(a + 360) = shadow_bearing(a).
C1_ShadowBearing ==
    Returned("shadow_bearing") =>
        LET a == call.args[1]
        IN  /\ call.ret >= 0 /\ call.ret < 360000
            /\ \E k \in -4..4 : call.ret = a + 180000 + k * 360000
            /\ shadow_bearing(a + 360000) = call.ret
            /\ shadow_bearing(a - 360000) = call.ret

C1_Witness ==
    /\ Returned("shadow_bearing")
    /\ call.args[1] = -180001
    /\ call.ret = 359999

\* The float quotient: l is h / t rounded to the nearest unit, inf or nan
\* when t is 0, and 0 where the tangent is beyond every float quotient.
IsQuotient(l, h, t) ==
    IF t = 0 THEN l = (IF h = 0 THEN NaN ELSE Inf(Sgn(h)))
    ELSE IF Abs(t) = TanSat THEN l = Fin(0)
    ELSE IsFin(l) /\ 2 * Abs(l.v * t - h * Scale) <= Abs(t)

\* C2: shadow_data_df gives every row shadow_length = h / tan(radians(
\* elevation)) and shadow_bearing = (azimuth + 180) mod 360 from that row's
\* own h, elevation and azimuth; a row with h = 10 m, elevation = 45 and
\* azimuth = 180 gets shadow_length = 10 m and shadow_bearing = 0.
C2_ShadowDataRows ==
    Returned("shadow_data_df") =>
        \A i \in 1..Len(heap[call.ret]) :
            LET r == heap[call.ret][i]
            IN  /\ IsQuotient(r.shadow_length, r.h, np_tan(np_radians(r.elevation)))
                /\ r.shadow_bearing >= 0 /\ r.shadow_bearing < 360000
                /\ (r.shadow_bearing - r.azimuth - 180000) % 360000 = 0
                /\ (r.h = 1000 /\ r.elevation = 45000 /\ r.azimuth = 180000) =>
                       (r.shadow_length = Fin(1000) /\ r.shadow_bearing = 0)

C2_Witness ==
    /\ Returned("shadow_data_df")
    /\ Len(heap[call.ret]) = 2
    /\ heap[call.ret][1].h = 2500 /\ heap[call.ret][1].elevation = -30000
    /\ heap[call.ret][2].h = 1000 /\ heap[call.ret][2].elevation = 45000
    /\ heap[call.ret][2].azimuth = 180000
    /\ heap[call.ret][2].shadow_length = Fin(1000)
    /\ heap[call.ret][2].shadow_bearing = 0

\* C3 as stated: with height 0, shadow_length is 0 for every elevation,
\* elevation exactly 0 and negative elevations included.
C3_ZeroHeightAlwaysZero ==
    (Returned("shadow_length") /\ call.args[2] = 0) => call.ret = Fin(0)

\* C3 amended: with height 0, shadow_length is 0 for every elevation other
\* than exactly 0 (negative ones included), and nan at elevation exactly 0.
C3_ZeroHeight ==
    (Returned("shadow_length") /\ call.args[2] = 0) =>
        /\ call.args[1] # 0 => call.ret = Fin(0)
        /\ call.args[1] = 0 => IsNaN(call.ret)

C3_Witness ==
    /\ Returned("shadow_length")
    /\ call.args = <<0, 0>>
    /\ IsNaN(call.ret)

\* C5: for height h >= 0 and elevation e in (0, 90], shadow_length(e, h) is
\* finite and >= 0, and no larger elevation in (0, 90] gives a longer shadow.
C5_LengthMonotone ==
    (/\ Returned("shadow_length")
     /\ call.args[2] >= 0
     /\ call.args[1] > 0 /\ call.args[1] <= 90000) =>
        /\ IsFin(call.ret) /\ call.ret.v >= 0
        /\ \A e2 \in ElevationInputs :
              (call.args[1] < e2 /\ e2 <= 90000) =>
                  LET l2 == shadow_length(e2, call.args[2])
                  IN  IsFin(l2) /\ l2.v <= call.ret.v

C5_Witness ==
    /\ Returned("shadow_length")
    /\ call.args = <<30000, 1000>>
    /\ call.ret.v > shadow_length(45000, 1000).v
    /\ shadow_length(45000, 1000).v > shadow_length(90000, 1000).v

\* The rounding of the model: three units of the radian resolution, in
\* millidegrees.
Tol == (3 * 180000) \div Pi

Near(f, x) == IsFin(f) /\ Abs(f.v - x) <= Tol

\* C6: translate_point(lat, lon, 0, bearing) returns (lat, lon), to the
\* rounding of the arithmetic, for every start point and every bearing.
C6_ZeroDistance ==
    (/\ Returned("translate_point")
     /\ \A i \in 1..Len(call.args[3]) : call.args[3][i] = Fin(0)) =>
        \A i \in 1..Len(call.args[3]) :
            /\ Near(call.ret[1][i], call.args[1][i])
            /\ Near(call.ret[2][i], call.args[2][i])

C6_Witness ==
    /\ Returned("translate_point")
    /\ call.args = <<<<46203>>, <<6152>>, <<Fin(0)>>, <<123456>>>>
    /\ Near(call.ret[1][1], 46203)
    /\ Near(call.ret[2][1], 6152)

\* translate_point of one element alone.
TipOf(lat, lon, length, bearing) ==
    LET one == translate_point(<<lat>>, <<lon>>, <<length>>, <<bearing>>)
    IN  <<one[1][1], one[2][1]>>

\* C7: on arrays of one length the i-th output pair of translate_point is
\* translate_point of the i-th lat, lon, length and bearing alone, and
\* translate_points_df gives each row the tip computed from that row's own
\* lat, lon, shadow_length and shadow_bearing.
C7_Elementwise ==
    /\ Returned("translate_point") =>
        /\ Len(call.ret[1]) = Len(call.args[1])
        /\ Len(call.ret[2]) = Len(call.args[1])
        /\ \A i \in 1..Len(call.args[1]) :
              <<call.ret[1][i], call.ret[2][i]>>
                  = TipOf(call.args[1][i], call.args[2][i],
                          call.args[3][i], call.args[4][i])
    /\ Returned("translate_points_df") =>
        \A i \in 1..Len(heap[call.ret]) :
            LET r == heap[call.ret][i]
            IN  <<r.shadow_lat, r.shadow_lon>>
                    = TipOf(r.lat, r.lon, r.shadow_length, r.shadow_bearing)

\* Two rows with different lengths and different finite tips.
C7_Witness ==
    /\ Returned("translate_points_df")
    /\ Len(heap[call.ret]) = 2
    /\ heap[call.ret][1].shadow_length # heap[call.ret][2].shadow_length
    /\ IsFin(heap[call.ret][1].shadow_lat) /\ IsFin(heap[call.ret][2].shadow_lat)
    /\ heap[call.ret][1].shadow_lat # heap[call.ret][2].shadow_lat
    /\ <<heap[call.ret][1].shadow_lat, heap[call.ret][1].shadow_lon>>
          # <<Fin(heap[call.ret][1].lat), Fin(heap[call.ret][1].lon)>>

---------------------------------------------------------------------------
(* Library calls of solar.py on drawn inputs.                              *)

\* Default thresholds of get_sunlit_times, in millidegrees.
DefaultMorning == -900
DefaultEvening == -833

\* Sample elevations: below, at and between the default thresholds, above.
SunlitElevations == {-2000, DefaultMorning, -850, DefaultEvening, 500}
ThresholdInputs == {DefaultMorning, DefaultEvening}

\* The longest solar_positions table of a call.
MaxSamples == 3

\* The step of the time grid in seconds (get_time_series, freq = "30s").
Freq == 30

\* A table indexed by the first n grid times, ascending: with the columns
\* of pvlib, or with the column apparent_elevation in place of elevation.
SolarTables ==
    UNION {
        { [columns |-> cols,
           rows |-> [i \in 1..n |-> [time |-> (i - 1) * Freq, elevation |-> el[i]]]] :
             el \in [1..n -> SunlitElevations],
             cols \in {{"elevation", "azimuth"}} }
        \cup
        { [columns |-> {"apparent_elevation", "azimuth"},
           rows |-> [i \in 1..n |->
                       [time |-> (i - 1) * Freq, apparent_elevation |-> el[i]]]] :
             el \in [1..n -> {-2000, 500}] }
        : n \in 0..MaxSamples }

---------------------------------------------------------------------------
(* src/src/shading.py: the last sunlit time behind a building.  Lengths are *)
(* in cm, a point is <<x, y, z>> (east, north, up), a direction is in      *)
(* 1/Scale, a building is the box [lo, hi] its mesh fills.                 *)

\* sun_direction_vector: the unit vector towards the sun.
sun_direction_vector(azimuth, elevation) ==
    LET az_rad == np_radians(azimuth)
        el_rad == np_radians(elevation)
        cos_el == np_cos(el_rad)
        x == RoundDiv(cos_el * np_sin(az_rad), Scale)
        y == RoundDiv(cos_el * np_cos(az_rad), Scale)
        z == np_sin(el_rad)
        norm == ISqrtSearch(0, 46340, x * x + y * y + z * z)
    IN  IF norm = 0 THEN <<x, y, z>>
        ELSE << RoundDiv(x * Scale, norm), RoundDiv(y * Scale, norm),
                RoundDiv(z * Scale, norm) >>

\* The ray parameters t for which origin + t * direction lies between lo
\* and hi on one axis: none (empty), all (free), or from enter / den to
\* exit / den, den > 0.
Slab(o, d, lo, hi) ==
    IF d = 0
    THEN [empty |-> ~(lo <= o /\ o <= hi), free |-> TRUE,
          enter |-> 0, exit |-> 0, den |-> 1]
    ELSE IF d > 0
    THEN [empty |-> FALSE, free |-> FALSE, enter |-> lo - o, exit |-> hi - o, den |-> d]
    ELSE [empty |-> FALSE, free |-> FALSE, enter |-> o - hi, exit |-> o - lo, den |-> -d]

\* building.ray.intersects_location(...)[0] has a location: the ray from
\* origin along direction meets the box at some t >= 0.
RayHits(origin, direction, building) ==
    LET slabs == [a \in 1..3 |->
                    Slab(origin[a], direction[a], building.lo[a], building.hi[a])]
        bound == {a \in 1..3 : ~slabs[a].free}
    IN  /\ \A a \in 1..3 : ~slabs[a].empty
        /\ \A a \in bound : slabs[a].exit >= 0
        /\ \A a, b \in bound :
              slabs[a].enter * slabs[b].den <= slabs[b].exit * slabs[a].den

\* The height of the sensor above the terrace center, 1.0 m.
SensorHeight == 100

\* Mutant of is_terrace_sunlit: origin is terrace_center itself, not a copy.
is_terrace_sunlit_in_place(terrace_center, sun_dir, building) ==
    LET origin == [terrace_center EXCEPT ![3] = @ + SensorHeight]
    IN  [value |-> ~RayHits(origin, sun_dir, building), terrace_center |-> origin]

\* is_terrace_sunlit: [value, terrace_center], the answer and the array of
\* the caller after the call.
is_terrace_sunlit(terrace_center, sun_dir, building) ==
    LET origin == [terrace_center EXCEPT ![3] = @ + SensorHeight]
    IN  [value |-> ~RayHits(origin, sun_dir, building),
         terrace_center |-> terrace_center]

\* The loop over valid.index[::-1], with k rows still to visit.
RECURSIVE LastSunlitFrom(_, _, _, _)
LastSunlitFrom(valid, k, terrace_center, building) ==
    IF k = 0 THEN [value |-> None, terrace_center |-> terrace_center]
    ELSE LET pos == valid[k]
             sun_dir == sun_direction_vector(pos.azimuth, pos.elevation)
             lit == is_terrace_sunlit(terrace_center, sun_dir, building)
         IN  IF lit.value
             THEN [value |-> pos.time, terrace_center |-> lit.terrace_center]
             ELSE LastSunlitFrom(valid, k - 1, lit.terrace_center, building)

\* get_shadow_adjusted_last_sunray_time: [value, terrace_center].
get_shadow_adjusted_last_sunray_time(ts, solar_positions, terrace_center, building, evening_threshold) ==
    LET valid == RowsAbove(solar_positions, evening_threshold)
    IN  IF valid = <<>>
        THEN [value |-> None, terrace_center |-> terrace_center]
        ELSE LastSunlitFrom(valid, Len(valid), terrace_center, building)

\* Sun positions of an afternoon: high in the south, low in the west, and
\* in the north-west just above and just below the evening threshold.
ShadingSuns ==
    { [elevation |-> 45000, azimuth |-> 180000],
      [elevation |-> 5000, azimuth |-> 270000],
      [elevation |-> -500, azimuth |-> 300000],
      [elevation |-> -850, azimuth |-> 300000] }

\* Tables in time order with the columns of pvlib.
ShadingTables ==
    UNION {
        { [columns |-> {"elevation", "azimuth"},
           rows |-> [i \in 1..n |->
                       [time |-> (i - 1) * Freq, elevation |-> p[i].elevation,
                        azimuth |-> p[i].azimuth]]] :
             p \in [1..n -> ShadingSuns] }
        : n \in 0..MaxSamples }

\* An 18 m building west of the terrace, a wall of 0.5 m in its place, and
\* an 18 m building south of the terrace.
BuildingInputs ==
    { [lo |-> <<-2000, -1000, 0>>, hi |-> <<-500, 1000, 1800>>],
      [lo |-> <<-2000, -1000, 0>>, hi |-> <<-500, 1000, 50>>],
      [lo |-> <<-1000, -1500, 0>>, hi |-> <<1000, -500, 1800>>] }

\* Terrace centers at ground level (get_terrace_center).
CenterInputs == { <<0, 0, 0>>, <<-300, 0, 0>> }

\* The timezone of the grid (config.py).
TIMEZONE == "Europe/Zurich"

\* The change of the clock of TIMEZONE on the day date_str: `at` is the
\* number of seconds after local midnight at which the change happens and
\* `shift` is what it adds to the wall clock (none on most days).
ClockChange(date_str) ==
    CASE date_str = "2023-03-26" -> [at |-> 7200, shift |-> 3600]
      [] date_str = "2023-10-29" -> [at |-> 10800, shift |-> -3600]
      [] OTHER -> [at |-> 0, shift |-> 0]

\* tz_localize: the instant, in seconds after local midnight of date_str,
\* at which the wall clock of that day shows `wall` seconds (for a wall
\* time that is neither skipped nor repeated).
tz_localize(date_str, wall) ==
    LET c == ClockChange(date_str)
    IN  IF wall < c.at THEN wall ELSE wall - c.shift

\* What the wall clock shows at an instant, in seconds after 00:00:00 of
\* date_str; 86400 and more is the next calendar day.
LocalTime(date_str, instant) ==
    LET c == ClockChange(date_str)
    IN  IF instant < c.at THEN instant ELSE instant + c.shift

\* pandas to_offset on a fixed step: its length in seconds.
to_offset(freq) ==
    CASE freq = "30s" -> 30
      [] freq = "30min" -> 1800
      [] freq = "1h" -> 3600
      [] freq = "7000s" -> 7000
      [] freq = "86399s" -> 86399
      [] freq = "24h" -> 86400
      [] freq = "100000s" -> 100000

\* pd.date_range(start, end, freq, tz) on a fixed step: both ends localized,
\* then start, start + freq, ... as long as the instant is not after end.
date_range(date_str, start, end, freq) ==
    LET first == tz_localize(date_str, start)
        last == tz_localize(date_str, end)
        step == to_offset(freq)
        n == IF last < first THEN 0 ELSE ((last - first) \div step) + 1
    IN  [i \in 1..n |->
            [date |-> date_str, value |-> first + (i - 1) * step, tz |-> TIMEZONE]]

\* Mutant of get_time_series: the day ends at the next midnight, included.
get_time_series_to_midnight(date_str, freq) ==
    date_range(date_str, 0, 86400, freq)

\* get_time_series: from 00:00:00 to 23:59:59 of date_str.
get_time_series(date_str, freq) ==
    date_range(date_str, 0, 86399, freq)

\* A day without a change of the clock (main.py), the day the clock goes
\* forward and the day it goes back.
DateInputs == {"2023-06-21", "2023-03-26", "2023-10-29"}
FreqInputs == {"30s", "30min", "1h", "7000s", "86399s", "24h", "100000s"}

SolarCalls ==
    {[fn |-> "get_sunlit_times", args |-> <<t, m, e>>, done |-> FALSE, ret |-> <<>>] :
        t \in SolarTables, m \in ThresholdInputs, e \in ThresholdInputs}
    \cup
    {[fn |-> "get_time_series", args |-> <<d, f>>, done |-> FALSE, ret |-> <<>>] :
        d \in DateInputs, f \in FreqInputs}
    \cup
    {[fn |-> "get_shadow_adjusted_last_sunray_time",
      args |-> <<[i \in 1..Len(t.rows) |-> t.rows[i].time], t, c, b, e>>,
      done |-> FALSE, ret |-> <<>>] :
        t \in ShadingTables, c \in CenterInputs, b \in BuildingInputs,
        e \in ThresholdInputs}

InitSolar ==
    /\ pc = "lib"
    /\ call \in SolarCalls
    /\ co_dict = <<>>
    /\ times = <<>>
    /\ sun = <<>>
    /\ terrace_df = <<>>
    /\ heap = <<>>
    /\ env = NoEnv
    /\ results = <<>>

CallGetSunlitTimes ==
    /\ pc = "lib" /\ call.fn = "get_sunlit_times" /\ ~call.done
    /\ call' = [call EXCEPT !.done = TRUE,
                            !.ret = get_sunlit_times(call.args[1], call.args[2],
                                                     call.args[3])]
    /\ UNCHANGED <<mainVars, heap>>

CallGetTimeSeries ==
    /\ pc = "lib" /\ call.fn = "get_time_series" /\ ~call.done
    /\ call' = [call EXCEPT !.done = TRUE,
                            !.ret = get_time_series(call.args[1], call.args[2])]
    /\ UNCHANGED <<mainVars, heap>>

CallGetShadowAdjustedLastSunrayTime ==
    /\ pc = "lib" /\ call.fn = "get_shadow_adjusted_last_sunray_time" /\ ~call.done
    /\ call' = [call EXCEPT !.done = TRUE,
                            !.ret = get_shadow_adjusted_last_sunray_time(
                                        call.args[1], call.args[2], call.args[3],
                                        call.args[4], call.args[5])]
    /\ UNCHANGED <<mainVars, heap>>

NextSolar ==
    \/ CallGetSunlitTimes
    \/ CallGetTimeSeries
    \/ CallGetShadowAdjustedLastSunrayTime

SpecSolar == InitSolar /\ [][NextSolar]_vars

\* The index entries of the table whose elevation is above the threshold.
TimesAbove(table, threshold) ==
    {table.rows[i].time : i \in {j \in 1..Len(table.rows) :
                                    table.rows[j].elevation > threshold}}

Earliest(T) == IF T = {} THEN None ELSE CHOOSE t \in T : \A u \in T : t <= u
Latest(T) == IF T = {} THEN None ELSE CHOOSE t \in T : \A u \in T : t >= u

\* C8: the first element is the earliest index entry with elevation strictly
\* above morning_threshold, the second the latest index entry with elevation
\* strictly above evening_threshold; each threshold decides its own element.
C8_SunlitTimes ==
    (Returned("get_sunlit_times") /\ call.ret.raised = "none") =>
        /\ call.ret.value[1] = Earliest(TimesAbove(call.args[1], call.args[2]))
        /\ call.ret.value[2] = Latest(TimesAbove(call.args[1], call.args[3]))

\* A sample at the morning threshold is passed over, one between the two
\* thresholds counts for the morning only, one at the evening threshold for
\* neither evening nor, being the last, anything else.
C8_Witness ==
    /\ Returned("get_sunlit_times")
    /\ call.args[2] = DefaultMorning /\ call.args[3] = DefaultEvening
    /\ Len(call.args[1].rows) = 3
    /\ call.args[1].rows[1].elevation = DefaultMorning
    /\ call.args[1].rows[2].elevation = 500
    /\ call.args[1].rows[3].elevation = DefaultEvening
    /\ call.ret.value = <<Freq, Freq>>

\* C9 as stated: the result never has exactly one element None.
C9_BothOrNeitherNone ==
    (Returned("get_sunlit_times") /\ call.ret.raised = "none") =>
        (call.ret.value[1] = None <=> call.ret.value[2] = None)

\* C22: get_sunlit_times raises ValueError and returns nothing whenever the
\* table has no column 'elevation', whatever the thresholds and the number
\* of rows, none included.
C22_NoElevationRaises ==
    (Returned("get_sunlit_times") /\ "elevation" \notin call.args[1].columns) =>
        (call.ret.raised = "ValueError" /\ call.ret.value = <<>>)

\* Tables without 'elevation': an empty one, and one whose
\* apparent_elevation is above both thresholds.
C22_Witness ==
    /\ Returned("get_sunlit_times")
    /\ call.args[1].columns = {"apparent_elevation", "azimuth"}
    /\ Len(call.args[1].rows) = 2
    /\ call.args[1].rows[2].apparent_elevation = 500
    /\ call.ret.raised = "ValueError"

\* C23: get_time_series returns a finite, strictly increasing sequence of
\* timestamps in TIMEZONE; the first is 00:00:00 local time of the date,
\* consecutive ones are exactly freq apart, and none is after 23:59:59 local
\* time of the date.
C23_GridWithinDay ==
    Returned("get_time_series") =>
        LET date_str == call.args[1]
            step == to_offset(call.args[2])
            ts == call.ret
        IN  /\ Len(ts) >= 1
            /\ LocalTime(date_str, ts[1].value) = 0
            /\ \A i \in 1..Len(ts) :
                  /\ ts[i].tz = TIMEZONE
                  /\ LocalTime(date_str, ts[i].value) \in 0..86399
            /\ \A i \in 1..(Len(ts) - 1) :
                  /\ ts[i + 1].value - ts[i].value = step
                  /\ ts[i].value < ts[i + 1].value

\* The day the clock goes forward, every hour: 23 entries, the third at
\* 03:00:00 local time, the last at 23:00:00.
C23_Witness ==
    /\ Returned("get_time_series")
    /\ call.args = <<"2023-03-26", "1h">>
    /\ Len(call.ret) = 23
    /\ LocalTime("2023-03-26", call.ret[3].value) = 3 * 3600
    /\ LocalTime("2023-03-26", call.ret[23].value) = 23 * 3600

\* The rows of the call's table that are above the threshold and whose ray
\* from `height` above the terrace center does not meet the building.
UnshadowedRows(height) ==
    LET rows == call.args[2].rows
        origin == [call.args[3] EXCEPT ![3] = @ + height]
    IN  {i \in 1..Len(rows) :
            /\ rows[i].elevation > call.args[5]
            /\ ~RayHits(origin,
                        sun_direction_vector(rows[i].azimuth, rows[i].elevation),
                        call.args[4])}

\* What the call returns when the rays start `height` above the center: the
\* latest time of an unshadowed row, None exactly when there is none, and
\* terrace_center as it was.
LatestUnshadowed(height) ==
    Returned("get_shadow_adjusted_last_sunray_time") =>
        LET rows == call.args[2].rows
            good == UnshadowedRows(height)
        IN  /\ (call.ret.value = None) <=> (good = {})
            /\ good # {} =>
                  /\ \E i \in good : rows[i].time = call.ret.value
                  /\ \A i \in good : rows[i].time <= call.ret.value
            /\ call.ret.terrace_center = call.args[3]

C25_WitnessNone ==
    /\ Returned("get_shadow_adjusted_last_sunray_time")
    /\ \E i \in 1..Len(call.args[2].rows) : call.args[2].rows[i].elevation > call.args[5]
    /\ UnshadowedRows(SensorHeight) = {}
    /\ call.ret.value = None

\* C26: on a table in time order and with morning_threshold <=
\* evening_threshold, a last sunlit time that is not None comes with a first
\* sunlit time that is not None and not later.
C26_FirstNotAfterLast ==
    (/\ Returned("get_sunlit_times")
     /\ call.ret.raised = "none"
     /\ call.args[2] <= call.args[3]
     /\ call.ret.value[2] # None) =>
        (call.ret.value[1] # None /\ call.ret.value[1] <= call.ret.value[2])

\* The default thresholds; the first sample is above the morning threshold
\* only, the last above both.
C26_Witness ==
    /\ Returned("get_sunlit_times")
    /\ call.args[2] = DefaultMorning /\ call.args[3] = DefaultEvening
    /\ Len(call.args[1].rows) = 3
    /\ call.args[1].rows[1].elevation = -850
    /\ call.args[1].rows[3].elevation = 500
    /\ call.ret.value = <<0, 2 * Freq>>

---------------------------------------------------------------------------
(* src/main.py from line 45: the stages on the filtered buildings.         *)

\* Vertices (easting m, northing m, z cm): the lowest, and two 10 m higher.
V1 == <<2500000, 1118000, 37500>>
V2 == <<2501000, 1118000, 38500>>
V3 == <<2500000, 1119000, 38500>>

\* What get_vertices can return: nothing, one vertex, two, and a closed ring
\* (the first vertex again at the end).
VertexLists == { <<>>, <<V1>>, <<V2, V1>>, <<V2, V3>>, <<V1, V2, V3, V1>> }

\* Every building that main.py keeps has an EGID attribute (line 41); two
\* buildings may carry the same one.  Identifiers, dict keys and EGIDs alike,
\* are strings.
CityObjects(egids) ==
    {[attributes |-> [EGID |-> e], vertices |-> vl] : e \in egids, vl \in VertexLists}

\* The second building: any with the EGID of the first, or one of its own.
SecondObjects ==
    CityObjects({"101"})
    \cup {[attributes |-> [EGID |-> "102"], vertices |-> <<V2, V3>>]}

CoDicts ==
    { <<>> }
    \cup {("b1" :> a) : a \in CityObjects({"101"})}
    \cup {("b2" :> b) : b \in SecondObjects}
    \cup {("b1" :> a) @@ ("b2" :> b) :
            a \in CityObjects({"101"}), b \in SecondObjects}

\* The step of the time grid of main.py in seconds (freq = '1h').
HourStep == 3600

\* The longest time grid.
MaxTimes == 2

TimeGrids == {[i \in 1..n |-> (i - 1) * HourStep] : n \in 1..MaxTimes}

\* What pvlib can return for one timestamp: the sun at 45 degrees in the
\* south, below the horizon, and exactly on the horizon.
SunSamples ==
    { [elevation |-> 45000, azimuth |-> 180000],
      [elevation |-> -30000, azimuth |-> 0],
      [elevation |-> 0, azimuth |-> 90000] }

\* The rows of a terrace_df for one egid.
TerraceRows(egid, corners) ==
    [i \in 1..Len(corners) |->
        [egid |-> egid, lat |-> corners[i][1], lon |-> corners[i][2]]]

\* The terrace_df tables a caller hands over: rows for the first building
\* only, the same polygon for both, a polygon each, and a degenerate one.
TerraceTables ==
    { TerraceRows("b1", TerraceSquare),
      TerraceRows("b1", TerraceSquare) \o TerraceRows("b2", TerraceSquare),
      TerraceRows("b1", TerraceSquare) \o TerraceRows("b2", TerraceMoved),
      TerraceRows("b1", TerracePoint) \o TerraceRows("b2", TerraceSquare) }

Init ==
    /\ pc = "process_multiple_buildings"
    /\ call = NoCall
    /\ co_dict \in CoDicts
    /\ times \in TimeGrids
    /\ sun \in [{times[i] : i \in 1..Len(times)} -> SunSamples]
    /\ terrace_df = <<>>
    /\ heap = <<>>
    /\ env = NoEnv
    /\ results = <<>>

\* main.py:45.  pd.concat of an empty list raises ValueError.
ProcessMultipleBuildings ==
    /\ pc = "process_multiple_buildings"
    /\ IF DOMAIN co_dict = {}
       THEN /\ pc' = "ValueError"
            /\ UNCHANGED <<heap, env>>
       ELSE /\ heap' = Append(heap, process_multiple_buildings(co_dict))
            /\ env' = [env EXCEPT !.buildings_df = Len(heap) + 1]
            /\ pc' = "solar_position"
    /\ UNCHANGED <<call, co_dict, times, sun, terrace_df, results>>

\* main.py:49.  A table without rows leaves pd.concat an empty list.
SolarPosition ==
    /\ pc = "solar_position"
    /\ IF heap[env.buildings_df] = <<>>
       THEN /\ pc' = "ValueError"
            /\ UNCHANGED <<heap, env>>
       ELSE /\ heap' = Append(heap, solar_position(heap[env.buildings_df], times, sun))
            /\ env' = [env EXCEPT !.building_points_with_solar = Len(heap) + 1]
            /\ pc' = "shadow_data_df"
    /\ UNCHANGED <<call, co_dict, times, sun, terrace_df, results>>

\* main.py:50.  The name is bound again to the object it already names.
ShadowDataDf ==
    /\ pc = "shadow_data_df"
    /\ heap' = [heap EXCEPT ![env.building_points_with_solar] = shadow_data_df(@)]
    /\ pc' = "translate_points_df"
    /\ UNCHANGED <<call, co_dict, times, sun, terrace_df, env, results>>

\* Mutant of TranslatePointsDf: the stage is passed over.
TranslatePointsDf_skipped ==
    /\ pc = "translate_points_df"
    /\ env' = [env EXCEPT !.translated_points_df = env.building_points_with_solar]
    /\ pc' = "get_interesection_ratios"
    /\ UNCHANGED <<call, co_dict, times, sun, terrace_df, heap, results>>

\* main.py:67.
TranslatePointsDf ==
    /\ pc = "translate_points_df"
    /\ heap' = [heap EXCEPT ![env.building_points_with_solar] = translate_points_df(@)]
    /\ env' = [env EXCEPT !.translated_points_df = env.building_points_with_solar]
    /\ pc' = "get_interesection_ratios"
    /\ UNCHANGED <<call, co_dict, times, sun, terrace_df, results>>

\* get_interesection_ratios on the translated points, with the terrace table
\* the caller hands over.  An error raised by the intersection ends the run.
GetIntersectionRatios ==
    /\ pc = "get_interesection_ratios"
    /\ \E t \in TerraceTables :
          LET out == get_interesection_ratios(heap[env.translated_points_df], t, times)
          IN  /\ terrace_df' = t
              /\ results' = out.rows
              /\ pc' = IF out.raised = "none" THEN "done" ELSE out.raised
    /\ UNCHANGED <<call, co_dict, times, sun, heap, env>>

Next ==
    \/ ProcessMultipleBuildings
    \/ SolarPosition
    \/ ShadowDataDf
    \/ TranslatePointsDf
    \/ GetIntersectionRatios

Spec == Init /\ [][Next]_vars

Projected == pc \in {"translate_points_df", "get_interesection_ratios", "done"}

ShadowRows == heap[env.building_points_with_solar]

\* The rows of a group that the sun stands above the horizon for.
SunlitCount(time, egid) ==
    Cardinality({i \in 1..Len(ShadowRows) :
                    /\ ShadowRows[i].time = time
                    /\ ShadowRows[i].egid = egid
                    /\ ShadowRows[i].elevation > 0})

\* C4 as stated: every shadow row with solar elevation <= 0 is marked (nan)
\* when the projection produces it, and none of them contributes a shadow
\* tip to a group handed to the intersection.
C4_NonPositiveMarkedAndExcluded ==
    /\ Projected =>
        \A i \in 1..Len(ShadowRows) :
            ShadowRows[i].elevation <= 0 => IsNaN(ShadowRows[i].shadow_length)
    /\ pc = "done" =>
        \A g \in 1..Len(results) :
            Len(results[g].shadow) <= SunlitCount(results[g].time, results[g].egid)

BuildingsDf == heap[env.buildings_df]

VertexZs(id) == {co_dict[id].vertices[i][3] : i \in 1..Len(co_dict[id].vertices)}

\* C10: after process_multiple_buildings every row has h >= 0 and
\* h = z - altitude, the rows of one building share one altitude, the least z
\* of that building's vertices, and every building has a row with h = 0.
C10_HeightAboveGround ==
    env.buildings_df # 0 =>
        /\ \A i \in 1..Len(BuildingsDf) :
              LET r == BuildingsDf[i]
              IN  /\ r.h >= 0
                  /\ r.h = r.z - r.altitude
                  /\ r.altitude \in VertexZs(r.egid)
                  /\ \A z \in VertexZs(r.egid) : r.altitude <= z
                  /\ \A j \in 1..Len(BuildingsDf) :
                        BuildingsDf[j].egid = r.egid =>
                            BuildingsDf[j].altitude = r.altitude
        /\ \A id \in DOMAIN co_dict :
              co_dict[id].vertices # <<>> =>
                  \E i \in 1..Len(BuildingsDf) :
                      BuildingsDf[i].egid = id /\ BuildingsDf[i].h = 0

\* Two buildings, the first listing its highest vertex first.
C10_Witness ==
    /\ env.buildings_df # 0
    /\ DOMAIN co_dict = {"b1", "b2"}
    /\ co_dict["b1"].vertices = <<V2, V1>>
    /\ co_dict["b2"].vertices = <<V2, V3>>
    /\ Len(BuildingsDf) = 4
    /\ BuildingsDf[1].h = 1000 /\ BuildingsDf[2].h = 0
    /\ BuildingsDf[3].h = 0 /\ BuildingsDf[3].altitude = 38500

\* The number of rows of a table that carry the given vertex fields, and in
\* C11 also the given time.
VertexCount(df, egid, lat, lon, h) ==
    Cardinality({i \in 1..Len(df) :
                    /\ df[i].egid = egid /\ df[i].lat = lat
                    /\ df[i].lon = lon /\ df[i].h = h})

SampleCount(df, time, egid, lat, lon, h) ==
    Cardinality({i \in 1..Len(df) :
                    /\ df[i].time = time /\ df[i].egid = egid /\ df[i].lat = lat
                    /\ df[i].lon = lon /\ df[i].h = h})

TimeSet == {times[i] : i \in 1..Len(times)}

\* C11: solar_position returns V*T rows for V vertex rows and T timestamps;
\* every row carries the egid, lat, lon and h of a vertex row and the time of
\* a timestamp, and every (vertex row, timestamp) pair has its own row: a
\* vertex row that occurs n times in the input occurs n times under each
\* timestamp.
C11_RowPerVertexAndTime ==
    env.building_points_with_solar # 0 =>
        /\ Len(ShadowRows) = Len(BuildingsDf) * Len(times)
        /\ \A i \in 1..Len(ShadowRows) :
              LET r == ShadowRows[i]
              IN  /\ r.time \in TimeSet
                  /\ VertexCount(BuildingsDf, r.egid, r.lat, r.lon, r.h) > 0
        /\ \A v \in 1..Len(BuildingsDf) : \A t \in TimeSet :
              LET b == BuildingsDf[v]
              IN  SampleCount(ShadowRows, t, b.egid, b.lat, b.lon, b.h)
                    = VertexCount(BuildingsDf, b.egid, b.lat, b.lon, b.h)

\* A closed ring (its first vertex twice) under two timestamps: 8 rows, the
\* repeated vertex twice under each timestamp.
C11_Witness ==
    /\ env.building_points_with_solar # 0
    /\ DOMAIN co_dict = {"b1"}
    /\ co_dict["b1"].vertices = <<V1, V2, V3, V1>>
    /\ Len(times) = 2
    /\ Len(ShadowRows) = 8
    /\ SampleCount(ShadowRows, times[2], "b1", BuildingsDf[1].lat,
                   BuildingsDf[1].lon, BuildingsDf[1].h) = 2

TranslatedRows == heap[env.translated_points_df]

RowsOfGroup(time, egid) ==
    {i \in 1..Len(TranslatedRows) :
        TranslatedRows[i].time = time /\ TranslatedRows[i].egid = egid}

\* C12: when get_interesection_ratios returns, every shadow row belongs to
\* exactly one group, there is exactly one result row per (time, egid) pair
\* that occurs in the table, and the shadow points handed to the
\* intersection for a group are the shadow tips of exactly the rows with that
\* time and that egid (each as often as it occurs among them).
C12_GroupedByTimeAndEgid ==
    pc = "done" =>
        /\ \A i \in 1..Len(TranslatedRows) :
              Cardinality({g \in 1..Len(results) :
                              /\ results[g].time = TranslatedRows[i].time
                              /\ results[g].egid = TranslatedRows[i].egid}) = 1
        /\ \A g \in 1..Len(results) :
              LET rows == RowsOfGroup(results[g].time, results[g].egid)
                  shadow == results[g].shadow
              IN  /\ rows # {}
                  /\ Len(shadow) = Cardinality(rows)
                  /\ \A k \in 1..Len(shadow) :
                        Cardinality({j \in 1..Len(shadow) : shadow[j] = shadow[k]})
                          = Cardinality({i \in rows :
                                <<TranslatedRows[i].shadow_lat,
                                  TranslatedRows[i].shadow_lon>> = shadow[k]})

\* Two buildings with different numbers of vertices under two timestamps:
\* four groups.
C12_Witness ==
    /\ pc = "done"
    /\ DOMAIN co_dict = {"b1", "b2"}
    /\ Len(co_dict["b1"].vertices) = 4
    /\ Len(co_dict["b2"].vertices) = 2
    /\ Len(times) = 2
    /\ Len(results) = 4
    /\ Len(results[1].shadow) = 4 /\ Len(results[2].shadow) = 2

StageOrder ==
    << "process_multiple_buildings", "solar_position", "shadow_data_df",
       "translate_points_df", "get_interesection_ratios", "done" >>

StageErrors == {"ValueError", "InputError"}

\* The table is ready for grouping: one row per (vertex row, timestamp),
\* each with its solar position, shadow bearing, shadow length and shadow tip.
AllProjected(df) ==
    /\ Len(df) = Len(BuildingsDf) * Len(times)
    /\ \A i \in 1..Len(df) :
          {"elevation", "azimuth", "shadow_bearing", "shadow_length",
           "shadow_lat", "shadow_lon"} \subseteq DOMAIN df[i]

\* C13: the stages of the pipeline run in the order vertex extraction, solar
\* position, shadow projection, point translation, grouping: every step
\* moves to the next stage of that order or ends the run with an error, and
\* the grouping stage is entered only with a table in which every vertex row
\* of every group has its solar position, shadow bearing, shadow length and
\* shadow tip.
C13_StagesInOrder ==
    [][ /\ pc' # pc =>
            \/ pc' \in StageErrors
            \/ \E n \in 1..(Len(StageOrder) - 1) :
                  pc = StageOrder[n] /\ pc' = StageOrder[n + 1]
        /\ pc' = "get_interesection_ratios" =>
            (env'.translated_points_df # 0
                /\ AllProjected(heap'[env'.translated_points_df])) ]_vars

\* Grouping has been reached with two buildings under two timestamps.
C13_Witness ==
    /\ pc = "get_interesection_ratios"
    /\ DOMAIN co_dict = {"b1", "b2"}
    /\ Len(times) = 2
    /\ Len(TranslatedRows) = 12
    /\ AllProjected(TranslatedRows)

\* C14 as stated: the target polygon handed to the intersection is the same
\* for every (time, egid) group.
C14_OneFixedTarget ==
    \A g \in 1..Len(results) : \A k \in 1..Len(results) :
        results[g].terrace = results[k].terrace

\* C15: every ratio that _get_intersection returns is a number in [0, 1],
\* whatever the shadow points and the (valid) target.
C15_RatioInUnitInterval ==
    (Returned("_get_intersection") /\ call.ret.raised = "none") =>
        /\ IsFin(call.ret.value[2])
        /\ call.ret.value[2].v >= 0
        /\ call.ret.value[2].v <= Scale

\* The triangle around the slanted target: the rounded corners of the
\* intersection enclose more than the target, and the ratio returned is 1.
C15_Witness ==
    /\ Returned("_get_intersection")
    /\ call.args = <<ShadowAroundSlanted, TerraceSlanted>>
    /\ call.ret.raised = "none"
    /\ Area2(call.ret.value[1])
         > Area2([i \in 1..4 |-> ToPlane(TerraceSlanted[i], TerraceSlanted[1])])
    /\ call.ret.value[2] = Fin(Scale)

\* A target has no area when all its corners lie on one line (or in one
\* point, or are fewer than three).
ZeroAreaTarget(terrace) ==
    \A i, j, k \in 1..Len(terrace) : Cross(terrace[i], terrace[j], terrace[k]) = 0

\* C16: _get_intersection with a target polygon of zero area fails with
\* InputError, whatever the shadow points; it returns no value.
C16_ZeroAreaTargetRefused ==
    (Returned("_get_intersection") /\ ZeroAreaTarget(call.args[2])) =>
        (call.ret.raised = "InputError" /\ call.ret.value = <<>>)

\* Four identical corners, against a triangle of shadow points.
C16_Witness ==
    /\ Returned("_get_intersection")
    /\ call.args[2] = TerracePoint
    /\ Len(call.args[1]) = 3
    /\ ~ZeroAreaTarget([i \in 1..3 |-> <<call.args[1][i][1].v, call.args[1][i][2].v>>])
    /\ call.ret.raised = "InputError"

\* The distinct points among the shadow tips with finite coordinates.
DistinctTips(shadow) ==
    {<<shadow[i][1].v, shadow[i][2].v>> :
        i \in {j \in 1..Len(shadow) : IsFin(shadow[j][1]) /\ IsFin(shadow[j][2])}}

\* C17: for shadow points of which fewer than 3 are distinct (points with
\* finite coordinates), and a target that has an area, _get_intersection
\* returns the ratio 0.
C17_FewPointsGiveZero ==
    (/\ Returned("_get_intersection")
     /\ Cardinality(DistinctTips(call.args[1])) < 3
     /\ ~ZeroAreaTarget(call.args[2])) =>
        (call.ret.raised = "none" /\ call.ret.value[2] = Fin(0))

\* Three shadow points, two of them the same, both inside the square.
C17_Witness ==
    /\ Returned("_get_intersection")
    /\ call.args[2] = TerraceSquare
    /\ Len(call.args[1]) = 3
    /\ Cardinality(DistinctTips(call.args[1])) = 2
    /\ call.args[1][1] = call.args[1][3]
    /\ call.ret.value[2] = Fin(0)

\* C18 as stated: a table is never changed after its creation;
\* shadow_data_df and translate_points_df leave the object they are given as
\* it is.
C18_TablesNeverMutated ==
    [][\A id \in 1..Len(heap) : heap'[id] = heap[id]]_vars

\* The transformed vertices of a city object.
VerticesOf(co) ==
    {process_boundary_generator(co.vertices)[i] : i \in 1..Len(co.vertices)}

\* C19 as stated: the egid of every row of process_multiple_buildings is the
\* EGID attribute of a building that has the row's vertex.
C19_EgidIsEGIDAttribute ==
    env.buildings_df # 0 =>
        \A i \in 1..Len(BuildingsDf) :
            \E id \in DOMAIN co_dict :
                /\ BuildingsDf[i].egid = co_dict[id].attributes.EGID
                /\ <<BuildingsDf[i].lat, BuildingsDf[i].lon, BuildingsDf[i].z>>
                        \in VerticesOf(co_dict[id])

HasEGID(co) == "EGID" \in DOMAIN co.attributes

\* C20: after remove_empty_egid every remaining building has the attribute
\* EGID, every building that had it is still there under its key, unchanged,
\* no other building is there, the dict returned is the dict handed over, and
\* a second call on the result removes nothing.
C20_RemoveEmptyEgid ==
    Returned("remove_empty_egid") =>
        LET before == call.args[1]
            after == call.ret[1]
        IN  /\ DOMAIN after \subseteq DOMAIN before
            /\ \A id \in DOMAIN after : HasEGID(after[id])
            /\ \A id \in DOMAIN before :
                  HasEGID(before[id]) => (id \in DOMAIN after /\ after[id] = before[id])
            /\ co_dict = call.ret[Len(call.ret)]
            /\ Len(call.ret) = 2 => call.ret[2] = call.ret[1]

\* Three buildings: one without EGID, one whose EGID is empty, one with an
\* EGID; the first is removed, and the second call has returned.
C20_Witness ==
    /\ Returned("remove_empty_egid")
    /\ Len(call.ret) = 2
    /\ DOMAIN call.args[1] = {"b1", "b2", "b3"}
    /\ ~HasEGID(call.args[1]["b1"])
    /\ call.args[1]["b2"].attributes = ("EGID" :> "")
    /\ DOMAIN co_dict = {"b2", "b3"}

\* The corner dict with the corners a and b exchanged.
Swapped(corners, a, b) == [corners EXCEPT ![a] = corners[b], ![b] = corners[a]]

\* C21: every length that compute_border_lengths returns is >= 0, and each
\* border has the same length when its two corners are exchanged: north
\* with NW and NE exchanged, east with NE and SE, south with SE and SW, west
\* with SW and NW.
C21_BorderLengthsSymmetric ==
    Returned("compute_border_lengths") =>
        LET corners == call.args[1]
            lengths == call.ret
        IN  /\ \A b \in {"north", "east", "south", "west"} : lengths[b] >= 0
            /\ compute_border_lengths(Swapped(corners, "NW", "NE")).north
                    = lengths.north
            /\ compute_border_lengths(Swapped(corners, "NE", "SE")).east
                    = lengths.east
            /\ compute_border_lengths(Swapped(corners, "SE", "SW")).south
                    = lengths.south
            /\ compute_border_lengths(Swapped(corners, "SW", "NW")).west
                    = lengths.west

\* A quadrilateral with four slanted borders of different lengths.
C21_Witness ==
    /\ Returned("compute_border_lengths")
    /\ call.args[1] = [NW |-> <<46212, 6147>>, NE |-> <<46207, 6164>>,
                       SE |-> <<46197, 6158>>, SW |-> <<46201, 6141>>]
    /\ Cardinality({call.ret.north, call.ret.east, call.ret.south, call.ret.west}) = 4
    /\ call.ret.north > 1000

\* The columns solar_position hands to the projection.
GivenColumns(r) ==
    [time |-> r.time, egid |-> r.egid, lat |-> r.lat, lon |-> r.lon,
     elevation |-> r.elevation, azimuth |-> r.azimuth, h |-> r.h]

\* C24: shadow_data_df and translate_points_df neither clamp nor filter: the
\* table they return has the rows solar_position gave, in the same order,
\* with time, egid, lat, lon, elevation, azimuth and h as given, whatever
\* the elevation.
C24_NoClampNoFilter ==
    (Projected \/ pc = "InputError") =>
        LET given == solar_position(BuildingsDf, times, sun)
        IN  /\ Len(ShadowRows) = Len(given)
            /\ \A i \in 1..Len(given) : GivenColumns(ShadowRows[i]) = given[i]
            /\ pc # "translate_points_df" =>
                  heap[env.translated_points_df] = ShadowRows

\* Both steps done on a table with a row below the horizon and a row on it.
C24_Witness ==
    /\ pc = "done"
    /\ \E i, j \in 1..Len(ShadowRows) :
          /\ ShadowRows[i].elevation < 0
          /\ ShadowRows[j].elevation = 0
          /\ "shadow_lat" \in DOMAIN ShadowRows[i]
          /\ "shadow_length" \in DOMAIN ShadowRows[j]

=========================================================================
